---- MODULE Spec2Model ----
(***************************************************************************)
(* Model of the SIP engine of arthasetu-website (class SIPCalculator):     *)
(* calculateForwardSIP, calculateReverseSIP, verifyCalculation and         *)
(* generateProjectionTable, and of its account manager (class AuthManager  *)
(* of auth.js) over the browser's localStorage.                            *)
(*                                                                         *)
(* JavaScript numbers are modelled as exact rationals extended with the    *)
(* IEEE-754 special values the engine can produce: NaN, +Infinity,         *)
(* -Infinity and the negative zero.  A number is a triple <<kind, n, d>>:  *)
(*   <<"num", n, d>>   the rational n/d, d > 0, gcd(|n|, d) = 1            *)
(*   <<"negzero", 0, 1>>                                                   *)
(*   <<"inf", 1, 0>>, <<"inf", -1, 0>>                                     *)
(*   <<"nan", 0, 0>>                                                       *)
(* The arithmetic below follows the IEEE rules for the special values and  *)
(* is exact on the finite ones (no binary rounding error is modelled).     *)
(***************************************************************************)
EXTENDS Integers, Sequences, FiniteSets, TLC

VARIABLES pc, op, args, result, m, table, localStorage, currentUser, now

vars == <<pc, op, args, result, m, table, localStorage, currentUser, now>>

\* the state of the account manager: the browser's storage, the currentUser
\* field of each AuthManager instance, and the latest instant the clock showed
authVars == <<localStorage, currentUser, now>>

----------------------------------------------------------------------------
(* JavaScript number values *)

NaN == <<"nan", 0, 0>>
PosInf == <<"inf", 1, 0>>
NegInf == <<"inf", -1, 0>>
NegZero == <<"negzero", 0, 1>>

AbsInt(i) == IF i < 0 THEN -i ELSE i

RECURSIVE Gcd(_, _)
Gcd(a, b) == IF b = 0 THEN a ELSE Gcd(b, a % b)

\* the rational n/d (d # 0) in lowest terms, as a number value
Rat(n, d) ==
    LET s == IF d < 0 THEN -1 ELSE 1
        g == Gcd(AbsInt(n), AbsInt(d))
    IN  <<"num", (s * n) \div g, (s * d) \div g>>

Num(i) == <<"num", i, 1>>

IsNaN(x) == x[1] = "nan"
IsInf(x) == x[1] = "inf"
IsFinite(x) == x[1] \in {"num", "negzero"}
IsZero(x) == IsFinite(x) /\ x[2] = 0

\* sign bit of a non-NaN value: -1 or 1
SignOf(x) == IF x[1] = "negzero" \/ x[2] < 0 THEN -1 ELSE 1

Zero(s) == IF s < 0 THEN NegZero ELSE Num(0)
Inf(s) == IF s < 0 THEN NegInf ELSE PosInf

\* unary minus
Neg(x) ==
    IF IsNaN(x) THEN NaN
    ELSE IF IsInf(x) THEN Inf(-SignOf(x))
    ELSE IF IsZero(x) THEN Zero(-SignOf(x))
    ELSE <<"num", -x[2], x[3]>>

\* x + y
Add(x, y) ==
    IF IsNaN(x) \/ IsNaN(y) THEN NaN
    ELSE IF IsInf(x) /\ IsInf(y) THEN (IF x = y THEN x ELSE NaN)
    ELSE IF IsInf(x) THEN x
    ELSE IF IsInf(y) THEN y
    ELSE IF IsZero(x) /\ IsZero(y)
         THEN (IF SignOf(x) < 0 /\ SignOf(y) < 0 THEN NegZero ELSE Num(0))
    ELSE IF IsZero(x) THEN y
    ELSE IF IsZero(y) THEN x
    ELSE LET g == Gcd(x[3], y[3])
         IN  Rat(x[2] * (y[3] \div g) + y[2] * (x[3] \div g), (x[3] \div g) * y[3])

\* x - y
Sub(x, y) == Add(x, Neg(y))

\* x * y
Mul(x, y) ==
    IF IsNaN(x) \/ IsNaN(y) THEN NaN
    ELSE IF (IsInf(x) /\ IsZero(y)) \/ (IsZero(x) /\ IsInf(y)) THEN NaN
    ELSE IF IsInf(x) \/ IsInf(y) THEN Inf(SignOf(x) * SignOf(y))
    ELSE IF IsZero(x) \/ IsZero(y) THEN Zero(SignOf(x) * SignOf(y))
    ELSE LET g1 == Gcd(AbsInt(x[2]), y[3])
             g2 == Gcd(AbsInt(y[2]), x[3])
         IN  <<"num", (x[2] \div g1) * (y[2] \div g2), (x[3] \div g2) * (y[3] \div g1)>>

\* x / y
Div(x, y) ==
    IF IsNaN(x) \/ IsNaN(y) THEN NaN
    ELSE IF IsInf(x) /\ IsInf(y) THEN NaN
    ELSE IF IsZero(x) /\ IsZero(y) THEN NaN
    ELSE IF IsInf(x) \/ IsZero(y) THEN Inf(SignOf(x) * SignOf(y))
    ELSE IF IsInf(y) \/ IsZero(x) THEN Zero(SignOf(x) * SignOf(y))
    ELSE Mul(x, Rat(SignOf(y) * y[3], AbsInt(y[2])))

\* x < y
Lt(x, y) ==
    IF IsNaN(x) \/ IsNaN(y) THEN FALSE
    ELSE IF IsInf(x) \/ IsInf(y)
         THEN (IF IsInf(x) /\ IsInf(y) THEN x[2] < y[2]
               ELSE IF IsInf(x) THEN x[2] < 0
               ELSE y[2] > 0)
    ELSE LET g == Gcd(x[3], y[3])
         IN  x[2] * (y[3] \div g) < y[2] * (x[3] \div g)

\* x <= y
Le(x, y) ==
    IF IsNaN(x) \/ IsNaN(y) THEN FALSE
    ELSE ~Lt(y, x)

\* x === y on numbers (NaN differs from itself, the two zeros are equal)
NumEq(x, y) ==
    IF IsNaN(x) \/ IsNaN(y) THEN FALSE
    ELSE IF IsZero(x) /\ IsZero(y) THEN TRUE
    ELSE x = y

\* Math.abs
MathAbs(x) ==
    IF IsNaN(x) THEN NaN
    ELSE IF IsInf(x) THEN PosInf
    ELSE IF IsZero(x) THEN Num(0)
    ELSE <<"num", AbsInt(x[2]), x[3]>>

\* floor of the rational n/d, d > 0
FloorDiv(n, d) == n \div d

\* Math.round: nearest integer, ties towards +Infinity; keeps NaN, the
\* infinities and the negative zero, and gives -0 for -0.5 <= x < 0
MathRound(x) ==
    IF ~IsFinite(x) \/ IsZero(x) THEN x
    ELSE LET q == FloorDiv(x[2], x[3])
             r == x[2] - q * x[3]
             i == IF r >= x[3] - r THEN q + 1 ELSE q
         IN  IF i = 0 /\ x[2] < 0 THEN NegZero ELSE Num(i)

\* Math.pow(x, n) for an integer exponent n and a non-NaN base
RECURSIVE PowNat(_, _)
PowNat(x, n) == IF n = 0 THEN Num(1) ELSE Mul(x, PowNat(x, n - 1))

MathPow(x, n) ==
    IF n >= 0 THEN PowNat(x, n) ELSE Div(Num(1), PowNat(x, -n))

\* Number.prototype.toFixed(1): the decimal string, modelled as
\* <<"NaN">>, <<"Infinity">>, <<"-Infinity">> or <<sign, tenths>> where the
\* string reads sign, tenths \div 10, ".", tenths % 10
ToFixed1(x) ==
    IF IsNaN(x) THEN <<"NaN">>
    ELSE IF IsInf(x) THEN (IF x[2] < 0 THEN <<"-Infinity">> ELSE <<"Infinity">>)
    ELSE IF IsZero(x) THEN <<"", 0>>
    ELSE LET a == AbsInt(x[2])
             q == a \div x[3]
             r == a % x[3]
             t == (r * 10) \div x[3]
             r2 == (r * 10) % x[3]
             tenths == q * 10 + t + (IF r2 >= x[3] - r2 THEN 1 ELSE 0)
         IN  <<IF x[2] < 0 THEN "-" ELSE "", tenths>>

----------------------------------------------------------------------------
(* class SIPCalculator *)

\* mutant of ForwardFormula: the numerator subtracted the wrong way round
ForwardFormulaNegated(monthlyAmount, monthlyRate, n) ==
    LET numerator == Sub(Num(1), MathPow(Add(Num(1), monthlyRate), n[2]))
    IN  Mul(Mul(monthlyAmount, Div(numerator, monthlyRate)), Add(Num(1), monthlyRate))

\* FV = P * (((1 + r)^n - 1) / r) * (1 + r), evaluated left to right as the
\* source does; n is an integer number value
ForwardFormula(monthlyAmount, monthlyRate, n) ==
    LET numerator == Sub(MathPow(Add(Num(1), monthlyRate), n[2]), Num(1))
    IN  Mul(Mul(monthlyAmount, Div(numerator, monthlyRate)), Add(Num(1), monthlyRate))

\* annualRate / 12 / 100
MonthlyRate(annualRate) == Div(Div(annualRate, Num(12)), Num(100))

\* mutant of calculateForwardSIP: gains subtracted the wrong way round
calculateForwardSIPGainsSwapped(monthlyAmount, years, annualRate) ==
    LET monthlyRate == MonthlyRate(annualRate)
        months == Mul(years, Num(12))
        principal == Mul(monthlyAmount, months)
        futureValue == ForwardFormula(monthlyAmount, monthlyRate, months)
        gains == Sub(principal, futureValue)
        gainPercent == Mul(Div(gains, futureValue), Num(100))
    IN  [futureValue |-> MathRound(futureValue),
         principal |-> MathRound(principal),
         gains |-> MathRound(gains),
         gainPercent |-> ToFixed1(gainPercent),
         monthlyRate |-> monthlyRate,
         months |-> months]

calculateForwardSIP(monthlyAmount, years, annualRate) ==
    LET monthlyRate == MonthlyRate(annualRate)
        months == Mul(years, Num(12))
        principal == Mul(monthlyAmount, months)
        futureValue == ForwardFormula(monthlyAmount, monthlyRate, months)
        gains == Sub(futureValue, principal)
        gainPercent == Mul(Div(gains, futureValue), Num(100))
    IN  [futureValue |-> MathRound(futureValue),
         principal |-> MathRound(principal),
         gains |-> MathRound(gains),
         gainPercent |-> ToFixed1(gainPercent),
         monthlyRate |-> monthlyRate,
         months |-> months]

\* mutant of calculateReverseSIP: totalGains subtracted the wrong way round
calculateReverseSIPGainsSwapped(goalAmount, years, annualRate) ==
    LET monthlyRate == MonthlyRate(annualRate)
        months == Mul(years, Num(12))
        numerator == Sub(MathPow(Add(Num(1), monthlyRate), months[2]), Num(1))
        divisor == Mul(Div(numerator, monthlyRate), Add(Num(1), monthlyRate))
        monthlySIP == Div(goalAmount, divisor)
        totalInvested == Mul(monthlySIP, months)
        totalGains == Sub(totalInvested, goalAmount)
        gainPercent == Mul(Div(totalGains, goalAmount), Num(100))
    IN  [monthlySIP |-> MathRound(monthlySIP),
         totalInvested |-> MathRound(totalInvested),
         totalGains |-> MathRound(totalGains),
         gainPercent |-> ToFixed1(gainPercent),
         monthlyRate |-> monthlyRate,
         months |-> months]

calculateReverseSIP(goalAmount, years, annualRate) ==
    LET monthlyRate == MonthlyRate(annualRate)
        months == Mul(years, Num(12))
        numerator == Sub(MathPow(Add(Num(1), monthlyRate), months[2]), Num(1))
        divisor == Mul(Div(numerator, monthlyRate), Add(Num(1), monthlyRate))
        monthlySIP == Div(goalAmount, divisor)
        totalInvested == Mul(monthlySIP, months)
        totalGains == Sub(goalAmount, totalInvested)
        gainPercent == Mul(Div(totalGains, goalAmount), Num(100))
    IN  [monthlySIP |-> MathRound(monthlySIP),
         totalInvested |-> MathRound(totalInvested),
         totalGains |-> MathRound(totalGains),
         gainPercent |-> ToFixed1(gainPercent),
         monthlyRate |-> monthlyRate,
         months |-> months]

verifyCalculation(monthlyAmount, years, annualRate) ==
    LET forward == calculateForwardSIP(monthlyAmount, years, annualRate)
        reverse == calculateReverseSIP(forward.futureValue, years, annualRate)
        match == Lt(MathAbs(Sub(reverse.monthlySIP, monthlyAmount)), Num(1))
    IN  [forward |-> forward,
         reverse |-> reverse,
         isAccurate |-> match,
         variance |-> MathAbs(Sub(reverse.monthlySIP, monthlyAmount))]

\* one row of generateProjectionTable, for the loop variable mm
ProjectionRow(monthlyAmount, annualRate, mm) ==
    LET monthlyRate == MonthlyRate(annualRate)
        fv == ForwardFormula(monthlyAmount, monthlyRate, mm)
        principal == Mul(monthlyAmount, mm)
        gains == Sub(fv, principal)
    IN  [month |-> mm,
         year |-> ToFixed1(Div(mm, Num(12))),
         principal |-> MathRound(principal),
         gains |-> MathRound(gains),
         futureValue |-> MathRound(fv)]

----------------------------------------------------------------------------
(* Wide decimals.  A term of 120 or 240 months at a monthly rate of 0.01    *)
(* has intermediate values (1.01^240) far outside the 32-bit range of the   *)
(* rationals above.  For those calls the same computation is carried out on *)
(* fixed-point decimals: a non-negative value is a sequence of limbs in     *)
(* base 10^4, least significant first, of which the first f limbs are the   *)
(* fraction.  With 2 * months + 8 fractional digits every step below is     *)
(* exact.                                                                   *)

\* the limb base
WideBase == 10^4

Limb(x, i) == IF i <= Len(x) THEN x[i] ELSE 0

MaxOf(a, b) == IF a >= b THEN a ELSE b

\* fractional limbs that keep a term of n months exact
FracLimbs(n) == (2 * n) \div 4 + 2

\* the non-negative integer i < 10^8 as a wide decimal with f fractional limbs
WideOfInt(i, f) == [j \in 1..(f + 2) |->
                      IF j = f + 1 THEN i % WideBase
                      ELSE IF j = f + 2 THEN i \div WideBase
                      ELSE 0]

\* The limb operations split their range in halves, so that the depth of
\* the recursion is the logarithm of the number of limbs.

\* limbs lo..hi of x * k + c for an integer 0 <= k <= 10^4, and the carry out
RECURSIVE WideMulRange(_, _, _, _, _)
WideMulRange(x, k, lo, hi, c) ==
    IF lo > hi THEN [d |-> <<>>, c |-> c]
    ELSE IF lo = hi
    THEN LET v == x[lo] * k + c
         IN  [d |-> <<v % WideBase>>, c |-> v \div WideBase]
    ELSE LET mid == (lo + hi) \div 2
             low == WideMulRange(x, k, lo, mid, c)
             high == WideMulRange(x, k, mid + 1, hi, low.c)
         IN  [d |-> low.d \o high.d, c |-> high.c]

WideMulSmall(x, k) ==
    LET p == WideMulRange(x, k, 1, Len(x), 0)
    IN  IF p.c = 0 THEN p.d ELSE Append(p.d, p.c)

\* limbs hi..lo of x / k, the most significant first, for an integer
\* 0 < k <= 10^4 with remainder r coming in from above, and the remainder
\* going out below
RECURSIVE WideDivRange(_, _, _, _, _)
WideDivRange(x, k, lo, hi, r) ==
    IF lo > hi THEN [d |-> <<>>, r |-> r]
    ELSE IF lo = hi
    THEN LET v == r * WideBase + x[lo]
         IN  [d |-> <<v \div k>>, r |-> v % k]
    ELSE LET mid == (lo + hi) \div 2
             high == WideDivRange(x, k, mid + 1, hi, r)
             low == WideDivRange(x, k, lo, mid, high.r)
         IN  [d |-> high.d \o low.d, r |-> low.r]

\* x / k, towards zero in the last limb
WideDivSmall(x, k) ==
    LET q == WideDivRange(x, k, 1, Len(x), 0).d
    IN  [i \in 1..Len(q) |-> q[Len(q) + 1 - i]]

\* limbs lo..hi of x + y + c, and the carry out
RECURSIVE WideAddRange(_, _, _, _, _)
WideAddRange(x, y, lo, hi, c) ==
    IF lo > hi THEN [d |-> <<>>, c |-> c]
    ELSE IF lo = hi
    THEN LET v == Limb(x, lo) + Limb(y, lo) + c
         IN  [d |-> <<v % WideBase>>, c |-> v \div WideBase]
    ELSE LET mid == (lo + hi) \div 2
             low == WideAddRange(x, y, lo, mid, c)
             high == WideAddRange(x, y, mid + 1, hi, low.c)
         IN  [d |-> low.d \o high.d, c |-> high.c]

WideAdd(x, y) ==
    LET p == WideAddRange(x, y, 1, MaxOf(Len(x), Len(y)), 0)
    IN  IF p.c = 0 THEN p.d ELSE Append(p.d, p.c)

\* limbs lo..hi of x - y - b, and the borrow out
RECURSIVE WideSubRange(_, _, _, _, _)
WideSubRange(x, y, lo, hi, b) ==
    IF lo > hi THEN [d |-> <<>>, b |-> b]
    ELSE IF lo = hi
    THEN LET v == Limb(x, lo) - Limb(y, lo) - b
         IN  [d |-> <<v % WideBase>>, b |-> IF v < 0 THEN 1 ELSE 0]
    ELSE LET mid == (lo + hi) \div 2
             low == WideSubRange(x, y, lo, mid, b)
             high == WideSubRange(x, y, mid + 1, hi, low.b)
         IN  [d |-> low.d \o high.d, b |-> high.b]

\* x - y for x >= y
WideSub(x, y) == WideSubRange(x, y, 1, MaxOf(Len(x), Len(y)), 0).d

\* -1, 0 or 1 as limbs lo..hi of x are below, equal to or above those of y
RECURSIVE WideCompareRange(_, _, _, _)
WideCompareRange(x, y, lo, hi) ==
    IF lo > hi THEN 0
    ELSE IF lo = hi
    THEN (IF Limb(x, lo) < Limb(y, lo) THEN -1
          ELSE IF Limb(x, lo) > Limb(y, lo) THEN 1 ELSE 0)
    ELSE LET mid == (lo + hi) \div 2
             high == WideCompareRange(x, y, mid + 1, hi)
         IN  IF high # 0 THEN high ELSE WideCompareRange(x, y, lo, mid)

\* x < y
WideLess(x, y) == WideCompareRange(x, y, 1, MaxOf(Len(x), Len(y))) = -1

\* Math.round of a wide decimal with f fractional limbs whose integer part
\* is below 10^8, as a number value
WideRound(x, f) ==
    LET i == Limb(x, f + 1) + WideBase * Limb(x, f + 2)
    IN  Num(IF 2 * Limb(x, f) >= WideBase THEN i + 1 ELSE i)

\* x * (annualRate / 12 / 100)
WideTimesRate(x, annualRate) ==
    WideDivSmall(WideDivSmall(WideMulSmall(x, annualRate), 12), 100)

\* x / (annualRate / 12 / 100)
WideOverRate(x, annualRate) ==
    WideDivSmall(WideMulSmall(WideMulSmall(x, 100), 12), annualRate)

\* x * (1 + annualRate / 12 / 100)
WideTimesOnePlusRate(x, annualRate) == WideAdd(x, WideTimesRate(x, annualRate))

\* x * (1 + monthlyRate)^n for n >= 0, by n multiplications
RECURSIVE WideTimesPow(_, _, _)
WideTimesPow(x, annualRate, n) ==
    IF n = 0 THEN x
    ELSE IF n = 1 THEN WideTimesOnePlusRate(x, annualRate)
    ELSE CHOOSE p \in {WideTimesPow(h, annualRate, n - n \div 2) :
                          h \in {WideTimesPow(x, annualRate, n \div 2)}} : TRUE

\* Math.pow(1 + monthlyRate, n) for n >= 0
WidePow(annualRate, n, f) == WideTimesPow(WideOfInt(1, f), annualRate, n)

\* ((x / y) * 100).toFixed(1) for 0 <= x < y: the tenths t nearest to
\* 1000 * x / y, the upper one on a tie
WidePercentToFixed1(x, y) ==
    LET n == WideMulSmall(x, 2000)
        t == CHOOSE u \in 0..1000 :
                /\ ~WideLess(n, WideMulSmall(y, MaxOf(2 * u - 1, 0)))
                /\ WideLess(n, WideMulSmall(y, 2 * u + 1))
    IN  <<"", t>>

\* mutant of calculateForwardSIPWide: the ordinary annuity, without the
\* trailing (1 + r) factor
calculateForwardSIPWideOrdinary(monthlyAmount, years, annualRate) ==
    LET monthlyRate == MonthlyRate(annualRate)
        months == Mul(years, Num(12))
        f == FracLimbs(months[2])
        principal == Mul(monthlyAmount, months)
        numerator == WideSub(WidePow(annualRate[2], months[2], f), WideOfInt(1, f))
        futureValue == WideMulSmall(WideOverRate(numerator, annualRate[2]),
                                    monthlyAmount[2])
        gains == WideSub(futureValue, WideOfInt(principal[2], f))
    IN  [futureValue |-> WideRound(futureValue, f),
         principal |-> MathRound(principal),
         gains |-> WideRound(gains, f),
         gainPercent |-> WidePercentToFixed1(gains, futureValue),
         monthlyRate |-> monthlyRate,
         months |-> months]

\* calculateForwardSIP on integer arguments with monthlyAmount > 0,
\* years > 0 and annualRate a positive multiple of 12
calculateForwardSIPWide(monthlyAmount, years, annualRate) ==
    LET monthlyRate == MonthlyRate(annualRate)
        months == Mul(years, Num(12))
        f == FracLimbs(months[2])
        principal == Mul(monthlyAmount, months)
        numerator == WideSub(WidePow(annualRate[2], months[2], f), WideOfInt(1, f))
        futureValue == WideTimesOnePlusRate(
                           WideMulSmall(WideOverRate(numerator, annualRate[2]),
                                        monthlyAmount[2]),
                           annualRate[2])
        gains == WideSub(futureValue, WideOfInt(principal[2], f))
    IN  [futureValue |-> WideRound(futureValue, f),
         principal |-> MathRound(principal),
         gains |-> WideRound(gains, f),
         gainPercent |-> WidePercentToFixed1(gains, futureValue),
         monthlyRate |-> monthlyRate,
         months |-> months]

----------------------------------------------------------------------------
(* Argument values.  TLC's integers are 32 bits wide, so the calls          *)
(* are drawn from sets on which every intermediate numerator and            *)
(* denominator of the exact arithmetic stays in range: monthly rates whose  *)
(* denominator is a power of two, and the 24-month terms only at a monthly  *)
(* rate of 0 or 1.                                                          *)

\* largest sampling interval of the projection calls, besides the default
MaxInterval == 5

\* rows the projection table can hold before the engine runs out of memory
HeapRows == 25

\* the default value of generateProjectionTable's interval parameter
DefaultInterval == 12

\* annualRate values: monthly rates -1/2, 0, 1/2 and 1
Rates == {Num(-600), Num(0), Num(600), Num(1200)}
LongRates == {Num(0), Num(1200)}

Amounts == {Num(0), Rat(1, 16384), Rat(1, 100), Rat(1, 2), Num(1), Rat(13, 10), Num(10)}
LongAmounts == {Rat(1, 100000000), Num(1), Num(10)}

Years == {Num(0), Num(1)}
LongYears == {Num(1), Num(2)}
NegativeYears == {Num(-1)}

Goals == {Num(0), Num(1), Num(100), Num(1000)}

Intervals == {Num(i) : i \in 1..MaxInterval} \cup {Num(DefaultInterval)}

\* <<monthlyAmount, years, annualRate>>
ForwardCalls ==
    (Amounts \X Years \X Rates)
    \cup (LongAmounts \X LongYears \X LongRates)
    \cup ({Num(1), Num(10)} \X NegativeYears \X Rates)

\* <<goalAmount, years, annualRate>>
ReverseCalls ==
    (Goals \X Years \X Rates)
    \cup (Goals \X LongYears \X LongRates)
    \cup (Goals \X NegativeYears \X Rates)

\* <<monthlyAmount, years, annualRate, interval>>: the intervals of the
\* contract, the interval 0 and, at the rates 0 and 1200, the interval -1
ProjectionCalls ==
    {<<c[1], c[2], c[3], i>> : c \in ForwardCalls, i \in Intervals \cup {Num(0)}}
    \cup ({Num(0), Num(1)} \X (NegativeYears \cup Years) \X LongRates \X {Num(-1)})

\* <<monthlyAmount, years, annualRate>> of the long-term calls, evaluated on
\* wide decimals: the documented example (10000 a month, 20 years, 12% a
\* year) and three others
LongTermCalls ==
    {<<Num(10000), Num(20), Num(12)>>, <<Num(10000), Num(20), Num(24)>>,
     <<Num(5000), Num(10), Num(24)>>, <<Num(100), Num(1), Num(12)>>}

None == <<"none">>

----------------------------------------------------------------------------
(* The engine as a state machine.  The class is static and keeps no state   *)
(* between calls, so a behaviour is one call: Init draws the entry point    *)
(* (op) and its arguments (args), the actions run it.  result is what the   *)
(* call returned; m and table are the locals of generateProjectionTable     *)
(* while its loop runs.                                                     *)

CallsOf(o) ==
    CASE o = "forward" -> ForwardCalls
      [] o = "reverse" -> ReverseCalls
      [] o = "forwardLongTerm" -> LongTermCalls
      [] o = "verify" -> ForwardCalls
      [] o = "projection" -> ProjectionCalls

Init ==
    /\ pc = "call"
    /\ op \in {"forward", "forwardLongTerm", "reverse", "verify", "projection"}
    /\ args \in CallsOf(op)
    /\ result = None
    /\ m = None
    /\ table = <<>>
    /\ localStorage = [k \in {} |-> None]
    /\ currentUser = <<>>
    /\ now = 0

CallForward ==
    /\ pc = "call"
    /\ op = "forward"
    /\ result' = calculateForwardSIP(args[1], args[2], args[3])
    /\ pc' = "done"
    /\ UNCHANGED <<op, args, m, table>>
    /\ UNCHANGED authVars

\* calculateForwardSIP on a long-term call
CallForwardLongTerm ==
    /\ pc = "call"
    /\ op = "forwardLongTerm"
    /\ result' = calculateForwardSIPWide(args[1], args[2], args[3])
    /\ pc' = "done"
    /\ UNCHANGED <<op, args, m, table>>
    /\ UNCHANGED authVars

CallReverse ==
    /\ pc = "call"
    /\ op = "reverse"
    /\ result' = calculateReverseSIP(args[1], args[2], args[3])
    /\ pc' = "done"
    /\ UNCHANGED <<op, args, m, table>>
    /\ UNCHANGED authVars

CallVerify ==
    /\ pc = "call"
    /\ op = "verify"
    /\ result' = verifyCalculation(args[1], args[2], args[3])
    /\ pc' = "done"
    /\ UNCHANGED <<op, args, m, table>>
    /\ UNCHANGED authVars

\* generateProjectionTable up to the loop: table = [], let m = interval
ProjectionEnter ==
    /\ pc = "call"
    /\ op = "projection"
    /\ m' = args[4]
    /\ table' = <<>>
    /\ pc' = "loop"
    /\ UNCHANGED <<op, args, result>>
    /\ UNCHANGED authVars

\* mutant of LoopTest: m < months
LoopTestStrict == Lt(m, Mul(args[2], Num(12)))

\* the loop test m <= months
LoopTest == Le(m, Mul(args[2], Num(12)))

\* one iteration: table.push(row); m += interval.  A push that the heap
\* cannot hold ends the program.
ProjectionIterate ==
    /\ pc = "loop"
    /\ LoopTest
    /\ IF Len(table) >= HeapRows
       THEN /\ pc' = "crashed"
            /\ UNCHANGED <<m, table>>
       ELSE /\ table' = Append(table, ProjectionRow(args[1], args[3], m))
            /\ m' = Add(m, args[4])
            /\ pc' = "loop"
    /\ UNCHANGED <<op, args, result>>
    /\ UNCHANGED authVars

\* loop exit: return table
ProjectionReturn ==
    /\ pc = "loop"
    /\ ~LoopTest
    /\ result' = table
    /\ pc' = "done"
    /\ UNCHANGED <<op, args, m, table>>
    /\ UNCHANGED authVars

Next ==
    \/ CallForward
    \/ CallForwardLongTerm
    \/ CallReverse
    \/ CallVerify
    \/ ProjectionEnter
    \/ ProjectionIterate
    \/ ProjectionReturn

Spec == Init /\ [][Next]_vars

----------------------------------------------------------------------------
(* The account manager (auth.js).  localStorage maps keys to the values     *)
(* stored under them; a key that is not in its domain has no item.  Values  *)
(* are kept as the objects that JSON.stringify wrote and JSON.parse reads   *)
(* back: plain records and arrays of strings and numbers, which that round  *)
(* trip returns unchanged and as a fresh copy.  A string that can be empty  *)
(* or is measured (a password) is a sequence of characters.  Time is the    *)
(* variable now, the latest instant the clock has shown; a signup happens   *)
(* at a later instant than everything before it.                            *)

USERS_KEY == <<"arthasetu_users">>

CURRENT_USER_KEY == <<"arthasetu_user">>

PortfolioKey(email) == <<"arthasetu_portfolio_", email>>

FundsKey(email) == <<"arthasetu_funds_", email>>

\* the JavaScript value null
Null == [null |-> TRUE]

\* localStorage with no items
EmptyStorage == [k \in {} |-> Null]

hasItem(key) == key \in DOMAIN localStorage

setItem(key, value) ==
    [k \in DOMAIN localStorage \cup {key} |->
        IF k = key THEN value ELSE localStorage[k]]

removeItem(key) == [k \in DOMAIN localStorage \ {key} |-> localStorage[k]]

\* the shortest password signup and changePassword accept
MinPasswordLength == 6

\* the latest instant of a signup
MaxTime == 1

DemoPassword == <<"d", "e", "m", "o", "1", "2", "3">>

DemoUser ==
    [name |-> "Rakesh", email |-> "rakesh@arthasetu.com",
     password |-> DemoPassword, createdAt |-> 0, type |-> "user"]

ShortPassword == <<"a", "b", "c">>

OtherPassword == <<"s", "e", "c", "r", "e", "t">>

Names == {"Rakesh", "Asha"}

Emails == {"rakesh@arthasetu.com", "asha@example.com"}

Passwords == {DemoPassword, OtherPassword}

\* <<name, email, password>> of the signup calls: a missing field, and each
\* email with a short and with an acceptable password
SignupCalls ==
    {<<"", "asha@example.com", OtherPassword>>,
     <<"Asha", "", OtherPassword>>,
     <<"Asha", "asha@example.com", <<>>>>}
    \cup ({"Asha"} \X Emails \X {ShortPassword, OtherPassword})

\* <<email, password>> of the login calls
LoginCalls ==
    {<<"", OtherPassword>>, <<"asha@example.com", <<>>>>} \cup (Emails \X Passwords)

\* <<currentPassword, newPassword>> of the changePassword calls
ChangePasswordCalls ==
    {<<DemoPassword, OtherPassword>>, <<OtherPassword, DemoPassword>>,
     <<DemoPassword, ShortPassword>>}

\* portfolioData and funds arguments
Portfolios == {"portfolio"}

FundLists == {<<"fund">>}

getAllUsers == IF hasItem(USERS_KEY) THEN localStorage[USERS_KEY] ELSE <<>>

loadCurrentUser ==
    IF hasItem(CURRENT_USER_KEY) THEN localStorage[CURRENT_USER_KEY] ELSE Null

isLoggedIn(i) == currentUser[i] # Null

\* users.findIndex(u => u.email === email): 0 stands for the -1 of the code
findIndexByEmail(users, email) ==
    IF \E j \in 1..Len(users) : users[j].email = email
    THEN CHOOSE j \in 1..Len(users) :
            /\ users[j].email = email
            /\ \A h \in 1..(j - 1) : users[h].email # email
    ELSE 0

\* users.splice(index, 1)
splice(users, index) ==
    [j \in 1..(Len(users) - 1) |-> IF j < index THEN users[j] ELSE users[j + 1]]

Failure(error) == [success |-> FALSE, error |-> error]

Success == [success |-> TRUE]

\* the variables of the calculator, which the account manager never touches
calculatorVars == <<pc, args, m, table>>

initializeDemoDataStorage ==
    IF ~hasItem(USERS_KEY) THEN setItem(USERS_KEY, <<DemoUser>>) ELSE localStorage

initializeDemoData(i) ==
    /\ op' = "initializeDemoData"
    /\ localStorage' = initializeDemoDataStorage
    /\ result' = Null
    /\ UNCHANGED <<currentUser, now, calculatorVars>>

\* mutant of emailRegistered: no email counts as registered
emailRegisteredNever(users, email) == FALSE

\* users.some(u => u.email === email)
emailRegistered(users, email) == \E j \in 1..Len(users) : users[j].email = email

signup(i, name, email, password) ==
    LET users == getAllUsers
    IN  /\ op' = "signup"
        /\ IF name = "" \/ email = "" \/ password = <<>>
           THEN /\ result' = Failure("All fields required")
                /\ UNCHANGED <<localStorage, now>>
           ELSE IF emailRegistered(users, email)
           THEN /\ result' = Failure("Email already registered")
                /\ UNCHANGED <<localStorage, now>>
           ELSE IF Len(password) < MinPasswordLength
           THEN /\ result' = Failure("Password must be 6+ characters")
                /\ UNCHANGED <<localStorage, now>>
           ELSE /\ now < MaxTime
                /\ now' = now + 1
                /\ localStorage' =
                      setItem(USERS_KEY,
                              Append(users, [name |-> name, email |-> email,
                                             password |-> password,
                                             createdAt |-> now + 1,
                                             type |-> "user"]))
                /\ result' = [success |-> TRUE,
                              user |-> [name |-> name, email |-> email,
                                        type |-> "user"]]
        /\ UNCHANGED <<currentUser, calculatorVars>>

login(i, email, password) ==
    LET users == getAllUsers
        found == {j \in 1..Len(users) :
                    users[j].email = email /\ users[j].password = password}
    IN  /\ op' = "login"
        /\ IF email = "" \/ password = <<>>
           THEN /\ result' = Failure("Email and password required")
                /\ UNCHANGED <<localStorage, currentUser>>
           ELSE IF found = {}
           THEN /\ result' = Failure("Invalid email or password")
                /\ UNCHANGED <<localStorage, currentUser>>
           ELSE LET user == users[CHOOSE j \in found : \A h \in found : j <= h]
                    sessionUser == [name |-> user.name, email |-> user.email,
                                    type |-> "user", loginTime |-> now]
                IN  /\ localStorage' = setItem(CURRENT_USER_KEY, sessionUser)
                    /\ currentUser' = [currentUser EXCEPT ![i] = sessionUser]
                    /\ result' = [success |-> TRUE, user |-> sessionUser]
        /\ UNCHANGED <<now, calculatorVars>>

logout(i) ==
    /\ op' = "logout"
    /\ localStorage' = removeItem(CURRENT_USER_KEY)
    /\ currentUser' = [currentUser EXCEPT ![i] = Null]
    /\ result' = Success
    /\ UNCHANGED <<now, calculatorVars>>

\* mutant of updateProfile: the session keeps the old name
updateProfileStoredOnly(i, name) ==
    LET users == getAllUsers
        userIndex == IF isLoggedIn(i)
                     THEN findIndexByEmail(users, currentUser[i].email) ELSE 0
    IN  /\ op' = "updateProfile"
        /\ IF ~isLoggedIn(i)
           THEN /\ result' = Failure("Not logged in")
                /\ UNCHANGED <<localStorage, currentUser>>
           ELSE IF userIndex = 0
           THEN /\ result' = Failure("User not found")
                /\ UNCHANGED <<localStorage, currentUser>>
           ELSE /\ localStorage' =
                      setItem(USERS_KEY, [users EXCEPT ![userIndex].name = name])
                /\ UNCHANGED currentUser
                /\ result' = [success |-> TRUE, user |-> currentUser[i]]
        /\ UNCHANGED <<now, calculatorVars>>

updateProfile(i, name) ==
    LET users == getAllUsers
        userIndex == IF isLoggedIn(i)
                     THEN findIndexByEmail(users, currentUser[i].email) ELSE 0
    IN  /\ op' = "updateProfile"
        /\ IF ~isLoggedIn(i)
           THEN /\ result' = Failure("Not logged in")
                /\ UNCHANGED <<localStorage, currentUser>>
           ELSE IF userIndex = 0
           THEN /\ result' = Failure("User not found")
                /\ UNCHANGED <<localStorage, currentUser>>
           ELSE LET updated == [currentUser[i] EXCEPT !.name = name]
                    stored == [k \in DOMAIN localStorage \cup {CURRENT_USER_KEY} |->
                                  IF k = USERS_KEY
                                  THEN [users EXCEPT ![userIndex].name = name]
                                  ELSE IF k = CURRENT_USER_KEY THEN updated
                                  ELSE localStorage[k]]
                IN  /\ localStorage' = stored
                    /\ currentUser' = [currentUser EXCEPT ![i] = updated]
                    /\ result' = [success |-> TRUE, user |-> updated]
        /\ UNCHANGED <<now, calculatorVars>>

changePassword(i, currentPassword, newPassword) ==
    LET users == getAllUsers
        userIndex == IF isLoggedIn(i)
                     THEN findIndexByEmail(users, currentUser[i].email) ELSE 0
    IN  /\ op' = "changePassword"
        /\ IF ~isLoggedIn(i)
           THEN /\ result' = Failure("Not logged in")
                /\ UNCHANGED localStorage
           ELSE IF userIndex = 0 \/ users[userIndex].password # currentPassword
           THEN /\ result' = Failure("Current password incorrect")
                /\ UNCHANGED localStorage
           ELSE IF Len(newPassword) < MinPasswordLength
           THEN /\ result' = Failure("Password must be 6+ characters")
                /\ UNCHANGED localStorage
           ELSE /\ localStorage' =
                      setItem(USERS_KEY,
                              [users EXCEPT ![userIndex].password = newPassword])
                /\ result' = Success
        /\ UNCHANGED <<currentUser, now, calculatorVars>>

deleteAccount(i, password) ==
    LET users == getAllUsers
        userIndex == IF isLoggedIn(i)
                     THEN findIndexByEmail(users, currentUser[i].email) ELSE 0
    IN  /\ op' = "deleteAccount"
        /\ IF ~isLoggedIn(i)
           THEN /\ result' = Failure("Not logged in")
                /\ UNCHANGED <<localStorage, currentUser>>
           ELSE IF userIndex = 0
           THEN /\ result' = Failure("User not found")
                /\ UNCHANGED <<localStorage, currentUser>>
           ELSE IF users[userIndex].password # password
           THEN /\ result' = Failure("Password incorrect")
                /\ UNCHANGED <<localStorage, currentUser>>
           ELSE /\ localStorage' =
                      [k \in DOMAIN localStorage \ {CURRENT_USER_KEY} |->
                          IF k = USERS_KEY THEN splice(users, userIndex)
                          ELSE localStorage[k]]
                /\ currentUser' = [currentUser EXCEPT ![i] = Null]
                /\ result' = Success
        /\ UNCHANGED <<now, calculatorVars>>

savePortfolioData(i, portfolioData) ==
    /\ op' = "savePortfolioData"
    /\ IF ~isLoggedIn(i)
       THEN /\ result' = Failure("Not logged in")
            /\ UNCHANGED localStorage
       ELSE /\ localStorage' = setItem(PortfolioKey(currentUser[i].email),
                                       [data |-> portfolioData, savedAt |-> now])
            /\ result' = Success
    /\ UNCHANGED <<currentUser, now, calculatorVars>>

getPortfolioData(i) ==
    /\ op' = "getPortfolioData"
    /\ result' = IF ~isLoggedIn(i) THEN Null
                 ELSE IF hasItem(PortfolioKey(currentUser[i].email))
                 THEN [data |-> localStorage[PortfolioKey(currentUser[i].email)].data]
                 ELSE Null
    /\ UNCHANGED <<authVars, calculatorVars>>

saveFundRecommendations(i, funds) ==
    /\ op' = "saveFundRecommendations"
    /\ IF ~isLoggedIn(i)
       THEN /\ result' = Failure("Not logged in")
            /\ UNCHANGED localStorage
       ELSE /\ localStorage' = setItem(FundsKey(currentUser[i].email),
                                       [funds |-> funds, savedAt |-> now])
            /\ result' = Success
    /\ UNCHANGED <<currentUser, now, calculatorVars>>

getSavedFunds(i) ==
    /\ op' = "getSavedFunds"
    /\ result' = IF ~isLoggedIn(i) THEN [funds |-> <<>>]
                 ELSE IF hasItem(FundsKey(currentUser[i].email))
                 THEN [funds |-> localStorage[FundsKey(currentUser[i].email)].funds]
                 ELSE [funds |-> <<>>]
    /\ UNCHANGED <<authVars, calculatorVars>>

clearAllData(i) ==
    /\ op' = "clearAllData"
    /\ localStorage' = [k \in {USERS_KEY} |-> <<DemoUser>>]
    /\ currentUser' = [currentUser EXCEPT ![i] = Null]
    /\ result' = Success
    /\ UNCHANGED <<now, calculatorVars>>

\* a page load in tab i: new AuthManager() and auth.initializeDemoData()
newAuthManager(i) ==
    /\ op' = "constructor"
    /\ currentUser' = [currentUser EXCEPT ![i] = loadCurrentUser]
    /\ localStorage' = initializeDemoDataStorage
    /\ result' = Null
    /\ UNCHANGED <<now, calculatorVars>>

\* one call of instance i on the accounts and the session
AccountCall(i) ==
    \/ initializeDemoData(i)
    \/ \E c \in SignupCalls : signup(i, c[1], c[2], c[3])
    \/ \E c \in LoginCalls : login(i, c[1], c[2])
    \/ logout(i)
    \/ \E name \in Names : updateProfile(i, name)
    \/ \E c \in ChangePasswordCalls : changePassword(i, c[1], c[2])
    \/ \E password \in Passwords : deleteAccount(i, password)
    \/ clearAllData(i)

\* one call of instance i on the data saved per account
DataCall(i) ==
    \/ \E portfolioData \in Portfolios : savePortfolioData(i, portfolioData)
    \/ getPortfolioData(i)
    \/ \E funds \in FundLists : saveFundRecommendations(i, funds)
    \/ getSavedFunds(i)

\* an AuthManager constructed on empty storage, before any call
AuthInitOf(instances) ==
    /\ pc = "auth"
    /\ op = "constructor"
    /\ args = <<>>
    /\ result = Null
    /\ m = None
    /\ table = <<>>
    /\ localStorage = EmptyStorage
    /\ currentUser = [i \in instances |-> Null]
    /\ now = 0

\* one AuthManager
AuthInit == AuthInitOf({1})

AuthNext == AccountCall(1) \/ DataCall(1)

AuthSpec == AuthInit /\ [][AuthNext]_vars

\* two tabs on one localStorage, each with its own AuthManager, their calls
\* interleaved
TabsInit == AuthInitOf({1, 2})

TabsNext == \E i \in {1, 2} : AccountCall(i) \/ newAuthManager(i)

TabsSpec == TabsInit /\ [][TabsNext]_vars

----------------------------------------------------------------------------
(* Properties *)

Positive(x) == Lt(Num(0), x)

\* the call of entry point o has returned
Returned(o) == pc = "done" /\ op = o

\* a forward or verify call within the contract: monthlyAmount > 0, years > 0
ValidAmountAndYears == Positive(args[1]) /\ Positive(args[2])

\* C1: for monthlyAmount > 0 and years > 0, calculateForwardSIP at annual
\* rate 0 returns futureValue = monthlyAmount * years * 12.
C1_ZeroRateLimit ==
    (Returned("forward") /\ ValidAmountAndYears /\ IsZero(args[3]))
        => NumEq(result.futureValue, Mul(Mul(args[1], args[2]), Num(12)))

\* C2: for monthlyAmount > 0, years > 0 and annualRate >= 0, verifyCalculation
\* reports isAccurate: the monthlySIP recovered from the forward futureValue
\* differs from monthlyAmount by less than 1.
C2_RoundTrip ==
    (Returned("verify") /\ ValidAmountAndYears /\ Le(Num(0), args[3]))
        => /\ result.isAccurate
           /\ Lt(MathAbs(Sub(result.reverse.monthlySIP, args[1])), Num(1))

\* the round trip on the inputs with a positive rate (not a claim of the
\* specification: the part of C2 that the zero-rate division leaves intact)
RoundTripPositiveRate ==
    (Returned("verify") /\ ValidAmountAndYears /\ Positive(args[3]))
        => result.isAccurate

\* C3 as claimed: for monthlyAmount > 0 (possibly non-integer) and years > 0
\* the returned fields satisfy futureValue = principal + gains and
\* principal = monthlyAmount * years * 12, exactly.  Stated at the nonzero
\* rates: at rate 0 the fields are NaN through the division of C1, and the
\* violation looked for here is the one the rounding causes.
C3_DecompositionExact ==
    (Returned("forward") /\ ValidAmountAndYears /\ ~IsZero(args[3]))
        => /\ NumEq(result.futureValue, Add(result.principal, result.gains))
           /\ NumEq(result.principal, Mul(Mul(args[1], args[2]), Num(12)))

\* C3 as amended: the returned principal is monthlyAmount * years * 12
\* rounded to the nearest integer, and the returned futureValue is never more
\* than 1 away from principal + gains (the three fields are rounded
\* separately).
C3_DecompositionRounded ==
    (Returned("forward") /\ ValidAmountAndYears)
        => /\ NumEq(result.principal, MathRound(Mul(Mul(args[1], args[2]), Num(12))))
           /\ ~Lt(Num(1), MathAbs(Sub(result.futureValue,
                                      Add(result.principal, result.gains))))

\* a forward call whose separately rounded fields do not add up
C3_Witness ==
    /\ Returned("forward")
    /\ ValidAmountAndYears
    /\ IsFinite(result.futureValue)
    /\ ~NumEq(result.futureValue, Add(result.principal, result.gains))
    /\ ~NumEq(result.principal, Mul(Mul(args[1], args[2]), Num(12)))

\* the other rates at which the forward call in args is also a modelled call
HigherRates == {r \in Rates : Lt(args[3], r) /\ <<args[1], args[2], r>> \in ForwardCalls}

LongerTerms ==
    {y \in Years \cup LongYears : Lt(args[2], y) /\ <<args[1], y, args[3]>> \in ForwardCalls}

\* C5 as claimed: for fixed monthlyAmount > 0 and annualRate > 0, a longer
\* term returns a strictly greater futureValue.
C5_YearsStrict ==
    (Returned("forward") /\ ValidAmountAndYears /\ Positive(args[3]))
        => \A y \in LongerTerms :
              Lt(result.futureValue,
                 calculateForwardSIP(args[1], y, args[3]).futureValue)

\* C5 as amended: for fixed monthlyAmount > 0 and annualRate > 0, a longer
\* term never returns a smaller futureValue.
C5_YearsMonotone ==
    (Returned("forward") /\ ValidAmountAndYears /\ Positive(args[3]))
        => \A y \in LongerTerms :
              ~Lt(calculateForwardSIP(args[1], y, args[3]).futureValue,
                  result.futureValue)

\* a one-year and a two-year term whose future values round to the same
\* integer, and a pair that differs
C5_Witness ==
    /\ Returned("forward")
    /\ ValidAmountAndYears
    /\ Positive(args[3])
    /\ \E y \in LongerTerms :
          NumEq(calculateForwardSIP(args[1], y, args[3]).futureValue,
                result.futureValue)

\* the future value calculateForwardSIP computes before rounding
ComputedFutureValue ==
    ForwardFormula(args[1], MonthlyRate(args[3]), Mul(args[2], Num(12)))

\* C6: when the computed future value is 0, calculateForwardSIP does not
\* report gainPercent as NaN.
C6_GainPercentAtZero ==
    (Returned("forward") /\ IsZero(ComputedFutureValue))
        => result.gainPercent # <<"NaN">>

\* C7: every call returns: the engine never ends in a crash.  (The heap is
\* finite, so a loop that pushes rows for ever ends in one.)
C7_Total == pc # "crashed"

\* a projection call within the contract: monthlyAmount > 0, years > 0 and
\* interval >= 1
ValidProjection == ValidAmountAndYears /\ Le(Num(1), args[4])

\* the integer value of the months and of the interval of a projection call
MonthsOf == args[2][2] * 12
IntervalOf == args[4][2]

\* C8: for interval >= 1 and years > 0 the table has floor(years*12/interval)
\* rows, row k for month k*interval and computed with the forward formula
\* at n = k*interval, so that no row is added for a full term that is not a
\* multiple of interval.
C8_ProjectionRows ==
    (Returned("projection") /\ Positive(args[2]) /\ Le(Num(1), args[4]))
        => /\ Len(result) = MonthsOf \div IntervalOf
           /\ \A k \in 1..Len(result) :
                 /\ result[k].month = Num(k * IntervalOf)
                 /\ result[k].futureValue =
                       MathRound(ForwardFormula(args[1], MonthlyRate(args[3]),
                                                Num(k * IntervalOf)))
                 /\ result[k].principal = MathRound(Mul(args[1], Num(k * IntervalOf)))
           /\ (MonthsOf % IntervalOf # 0
                 => \A k \in 1..Len(result) : result[k].month # Num(MonthsOf))

\* a table sampled at an interval that does not divide the term
C8_Witness ==
    /\ Returned("projection")
    /\ Positive(args[2])
    /\ Le(Num(1), args[4])
    /\ MonthsOf % IntervalOf # 0
    /\ Len(result) >= 2

ValidGoalAndYears == Positive(args[1]) /\ Positive(args[2])

\* C10 as claimed: for goalAmount > 0 and years > 0 the returned fields
\* satisfy totalInvested = monthlySIP * months and
\* totalGains = goalAmount - totalInvested.  Stated at the nonzero rates: at
\* rate 0 the fields are NaN through the same division as in C1, and the
\* violation looked for here is the one the rounding causes.
C10_ReverseExact ==
    (Returned("reverse") /\ ValidGoalAndYears /\ ~IsZero(args[3]))
        => /\ NumEq(result.totalInvested, Mul(result.monthlySIP, result.months))
           /\ NumEq(result.totalGains, Sub(args[1], result.totalInvested))

\* C10 as amended: for goalAmount > 0 and years > 0 the returned
\* totalInvested is never more than (months + 1) / 2 away from
\* monthlySIP * months, and the returned totalGains never more than 1 away
\* from goalAmount - totalInvested (the fields are rounded separately).
C10_ReverseRounded ==
    (Returned("reverse") /\ ValidGoalAndYears)
        => /\ ~Lt(Div(Add(result.months, Num(1)), Num(2)),
                  MathAbs(Sub(result.totalInvested,
                              Mul(result.monthlySIP, result.months))))
           /\ ~Lt(Num(1),
                  MathAbs(Sub(result.totalGains,
                              Sub(args[1], result.totalInvested))))

\* a reverse call whose rounded monthlySIP times months is not totalInvested
C10_Witness ==
    /\ Returned("reverse")
    /\ ValidGoalAndYears
    /\ IsFinite(result.monthlySIP)
    /\ ~NumEq(result.totalInvested, Mul(result.monthlySIP, result.months))

----------------------------------------------------------------------------
(* C11: the documented example *)

DocumentedExample ==
    Returned("forwardLongTerm") /\ args = <<Num(10000), Num(20), Num(12)>>

WithinOne(x, y) == Le(MathAbs(Sub(x, y)), Num(1))

----------------------------------------------------------------------------
(* C12 - C15: the account manager *)

\* the stored record of the account instance i is logged in as
AccountOf(i) ==
    getAllUsers[findIndexByEmail(getAllUsers, currentUser[i].email)]

HasAccount(i) ==
    isLoggedIn(i) /\ findIndexByEmail(getAllUsers, currentUser[i].email) # 0

\* the item under key, if there is one, was saved by the account instance i
\* is logged in as: not before that account was created
SavedByAccountOf(i, key) ==
    hasItem(key) => localStorage[key].savedAt >= AccountOf(i).createdAt

\* C12: what getPortfolioData and getSavedFunds return to a logged-in account
\* is null / [] or data that this very account saved; data saved by an
\* account deleted since, under the same email, is never returned.
C12_DataIsolation ==
    /\ (op = "getPortfolioData" /\ HasAccount(1) /\ result # Null)
          => SavedByAccountOf(1, PortfolioKey(currentUser[1].email))
    /\ (op = "getSavedFunds" /\ HasAccount(1) /\ result.funds # <<>>)
          => SavedByAccountOf(1, FundsKey(currentUser[1].email))

\* C13: no two records of the stored user list have the same email.
C13_EmailUnique ==
    \A j, h \in 1..Len(getAllUsers) :
        j # h => getAllUsers[j].email # getAllUsers[h].email

\* a signup was refused for its email while two accounts are stored
C13_Witness ==
    /\ op = "signup"
    /\ result = Failure("Email already registered")
    /\ Len(getAllUsers) = 2

\* C14: whenever isLoggedIn() is true on the one instance, the stored user
\* list has a record with the email and the name of currentUser.
C14_SessionValid ==
    isLoggedIn(1) =>
        \E j \in 1..Len(getAllUsers) :
            /\ getAllUsers[j].email = currentUser[1].email
            /\ getAllUsers[j].name = currentUser[1].name

\* logged in, and updateProfile has just renamed the account
C14_Witness ==
    /\ op = "updateProfile"
    /\ result.success
    /\ isLoggedIn(1)
    /\ currentUser[1].name # "Rakesh"
    /\ currentUser[1].email = "rakesh@arthasetu.com"

\* C15: with two instances on one localStorage, an instance for which
\* isLoggedIn() is true refers to an account that is in the stored user list.
C15_LoggedInAccountExists ==
    \A i \in DOMAIN currentUser :
        isLoggedIn(i) =>
            \E j \in 1..Len(getAllUsers) :
                getAllUsers[j].email = currentUser[i].email

====
